---- MODULE Spec2Model ----
(***************************************************************************)
(* Model of the sun_track browser dashboard: the socket handlers, chart    *)
(* updates and control functions of the dashboard script                   *)
(* (src/unnamed/part_000) and the PVVisualization scene                    *)
(* (src/static/js/threejs-app.js).                                         *)
(*                                                                         *)
(* JavaScript values are records [k, n, d]: k is the kind ("num",          *)
(* "undefined", "NaN", "Infinity", "string"); a number is the exact        *)
(* rational n/d in lowest terms with d > 0.  Angles in radians are kept as *)
(* rational multiples of pi.                                               *)
(***************************************************************************)
EXTENDS Integers, Sequences, FiniteSets, TLC

---------------------------------------------------------------------------
(* Bounds of the model *)

MaxMessages == 2

MaxInflight == 1

---------------------------------------------------------------------------
(* JavaScript values and arithmetic *)

Abs(i) == IF i < 0 THEN -i ELSE i

Sign(i) == IF i < 0 THEN -1 ELSE IF i > 0 THEN 1 ELSE 0

RECURSIVE Gcd(_, _)
Gcd(a, b) == IF b = 0 THEN a ELSE Gcd(b, a % b)

Undef == [k |-> "undefined", n |-> 0, d |-> 1]

NaN == [k |-> "NaN", n |-> 0, d |-> 1]

Inf(s) == [k |-> "Infinity", n |-> s, d |-> 1]

StrAbc == [k |-> "string", n |-> 0, d |-> 1]

Rat(p, q) ==
    LET g == Gcd(Abs(p), Abs(q))
        s == IF q < 0 THEN -1 ELSE 1
    IN  [k |-> "num", n |-> s * (p \div g), d |-> s * (q \div g)]

Num(i) == [k |-> "num", n |-> i, d |-> 1]

\* ToNumber: undefined and a non-numeric string convert to NaN
ToNumber(v) == IF v.k \in {"undefined", "string"} THEN NaN ELSE v

\* a / b
Div(a, b) ==
    LET x == ToNumber(a)
        y == ToNumber(b)
    IN  IF x.k = "NaN" \/ y.k = "NaN" THEN NaN
        ELSE IF x.k = "Infinity"
             THEN IF y.k = "Infinity" THEN NaN
                  ELSE Inf(x.n * (IF y.n < 0 THEN -1 ELSE 1))
        ELSE IF y.k = "Infinity" THEN Num(0)
        ELSE IF y.n = 0
             THEN IF x.n = 0 THEN NaN ELSE Inf(Sign(x.n))
        ELSE Rat(x.n * y.d, x.d * y.n)

\* a * b
Mul(a, b) ==
    LET x == ToNumber(a)
        y == ToNumber(b)
    IN  IF x.k = "NaN" \/ y.k = "NaN" THEN NaN
        ELSE IF x.k = "Infinity" \/ y.k = "Infinity"
             THEN IF x.n = 0 \/ y.n = 0 THEN NaN
                  ELSE Inf(Sign(x.n) * Sign(y.n))
        ELSE Rat(x.n * y.n, x.d * y.d)

\* a - b
Sub(a, b) ==
    LET x == ToNumber(a)
        y == ToNumber(b)
    IN  IF x.k = "NaN" \/ y.k = "NaN" THEN NaN
        ELSE IF x.k = "Infinity"
             THEN IF y.k = "Infinity" /\ y.n = x.n THEN NaN ELSE x
        ELSE IF y.k = "Infinity" THEN Inf(-y.n)
        ELSE Rat(x.n * y.d - y.n * x.d, x.d * y.d)

\* Math.min(a, b)
MathMin(a, b) ==
    LET x == ToNumber(a)
        y == ToNumber(b)
    IN  IF x.k = "NaN" \/ y.k = "NaN" THEN NaN
        ELSE IF x.k = "Infinity" THEN (IF x.n < 0 THEN x ELSE y)
        ELSE IF y.k = "Infinity" THEN (IF y.n < 0 THEN y ELSE x)
        ELSE IF x.n * y.d <= y.n * x.d THEN x ELSE y

\* THREE.MathUtils.degToRad: degrees * pi / 180, as a multiple of pi
degToRad(deg) == Div(deg, Num(180))

\* Quarter turns (mod 4) of an angle that is a multiple of pi/2
QuarterTurns(r) == ((2 * r.n) \div r.d) % 4

\* Math.sin / Math.cos of r * pi, for r a multiple of 1/2
MathSin(r) ==
    IF r.k # "num" THEN NaN
    ELSE Num(<<0, 1, 0, -1>>[QuarterTurns(r) + 1])

MathCos(r) ==
    IF r.k # "num" THEN NaN
    ELSE Num(<<1, 0, -1, 0>>[QuarterTurns(r) + 1])

\* Number.prototype.toFixed(digits) of a finite non-negative number,
\* as the integer count of 10^-digits units shown
ToFixed(v, scale) == (2 * scale * v.n + v.d) \div (2 * v.d)

---------------------------------------------------------------------------
(* Messages of the simulation_data event *)

\* current_data.sensor_readings: absent, or an array of numbers
NoReadings == [present |-> FALSE, vals |-> <<>>]

Readings(seq) == [present |-> TRUE, vals |-> seq]

\* A snapshot with every field present
FullSnapshot(t) ==
    [present |-> TRUE,
     time |-> t,
     total_irradiance |-> Num(500),
     poa_glb |-> Num(1000),
     panel_tilt |-> Num(30),
     panel_azimuth |-> Num(90),
     sun_elevation |-> Num(90),
     sun_azimuth |-> Num(0),
     sensor_readings |-> Readings(<<Num(0), Num(500), Num(1000), Num(1500)>>)]

\* A message without current_data
NoSnapshot ==
    [present |-> FALSE,
     time |-> Undef,
     total_irradiance |-> Undef,
     poa_glb |-> Undef,
     panel_tilt |-> Undef,
     panel_azimuth |-> Undef,
     sun_elevation |-> Undef,
     sun_azimuth |-> Undef,
     sensor_readings |-> NoReadings]

Base == FullSnapshot(Num(60))

\* The snapshots the server may send
Snapshots ==
    { FullSnapshot(Num(0)),
      Base,
      [Base EXCEPT !.time = StrAbc],
      [Base EXCEPT !.poa_glb = Num(0)],
      [Base EXCEPT !.poa_glb = Undef],
      [Base EXCEPT !.sensor_readings = NoReadings],
      [Base EXCEPT !.panel_tilt = Undef, !.panel_azimuth = Num(270),
                   !.sun_elevation = Undef],
      [Base EXCEPT !.panel_tilt = Num(45), !.panel_azimuth = Num(180),
                   !.sun_elevation = Num(0), !.sun_azimuth = Num(90),
                   !.sensor_readings =
                       Readings(<<Num(1500), Num(1000), Num(500), Num(0)>>)],
      [Base EXCEPT !.sensor_readings =
                       Readings(<<Num(0), Num(500), Num(1000), Num(1500),
                                  Num(250)>>)] }

NoStats == [present |-> FALSE, entries |-> <<>>]

Stats(seq) == [present |-> TRUE, entries |-> seq]

\* The simulation_data payloads {progress, summary_stats?, current_data?}
Messages ==
    { [progress |-> Num(50), summary_stats |-> NoStats, current_data |-> c] :
          c \in Snapshots }
    \cup
    { [progress |-> Num(100),
       summary_stats |-> Stats(<<[key |-> "energy", value |-> Rat(25, 2)]>>),
       current_data |-> NoSnapshot],
      [progress |-> Undef, summary_stats |-> NoStats, current_data |-> Base] }

\* No message is being handled
NoMessage == [progress |-> Undef, summary_stats |-> NoStats,
              current_data |-> NoSnapshot]

\* What the server answers to a fetch: whether a response arrives at all,
\* its HTTP status, and whether its body parses as JSON
Outcomes ==
    { [delivered |-> FALSE, http |-> 0, json |-> FALSE],
      [delivered |-> TRUE, http |-> 200, json |-> TRUE],
      [delivered |-> TRUE, http |-> 500, json |-> TRUE],
      [delivered |-> TRUE, http |-> 500, json |-> FALSE] }

NoOutcome == [delivered |-> FALSE, http |-> -1, json |-> FALSE]

---------------------------------------------------------------------------
(* Program state *)

VARIABLES
    connected,       \* the socket is connected
    charts,          \* the `charts` registry: what Plotly.newPlot returned
    plots,           \* Plotly's traces, per plotted element id
    simulationData,  \* the stored snapshot history
    panelRot,        \* panel.rotation: [x, y], multiples of pi
    sunPos,          \* sun.position
    lightPos,        \* sunLight.position
    materialColor,   \* colour of each sensor material
    clouds,          \* x position of each cloud group, in hundredths
    status,          \* text of #status
    progress,        \* #progress: style.width (percent) and text (tenths)
    summary,         \* #summary-stats: the rendered rows
    startDisabled,   \* #start-btn.disabled
    pauseDisabled,   \* #pause-btn.disabled
    inflight,        \* fetches awaiting their response, per URL
    msgCount,        \* simulation_data events delivered so far
    lastEvent,       \* history: the handler that ran last
    lastMsg,         \* history: the simulation_data payload it handled
    lastOutcome,     \* history: the fetch outcome it handled
    lastThrew,       \* history: where that handler threw, or "none"
    cmdPhase,        \* history: progress through start-ack, reset, start-ack
    runClock,        \* history: the time order of the current run's snapshots
    resetPending     \* history: a reset ran while a start request is outstanding

vars == <<connected, charts, plots, simulationData, panelRot, sunPos,
          lightPos, materialColor, clouds, status, progress, summary,
          startDisabled, pauseDisabled, inflight, msgCount, lastEvent,
          lastMsg, lastOutcome, lastThrew, cmdPhase, runClock,
          resetPending>>

\* The mutable page state a handler works on, with the place it threw
World ==
    [plots |-> plots, simulationData |-> simulationData,
     panelRot |-> panelRot, sunPos |-> sunPos, lightPos |-> lightPos,
     materialColor |-> materialColor, clouds |-> clouds,
     status |-> status, progress |-> progress, summary |-> summary,
     startDisabled |-> startDisabled, pauseDisabled |-> pauseDisabled,
     threw |-> "none"]

Commit(w) ==
    /\ plots' = w.plots
    /\ simulationData' = w.simulationData
    /\ panelRot' = w.panelRot
    /\ sunPos' = w.sunPos
    /\ lightPos' = w.lightPos
    /\ materialColor' = w.materialColor
    /\ clouds' = w.clouds
    /\ status' = w.status
    /\ progress' = w.progress
    /\ summary' = w.summary
    /\ startDisabled' = w.startDisabled
    /\ pauseDisabled' = w.pauseDisabled
    /\ lastThrew' = w.threw

Throw(w, where) == [w EXCEPT !.threw = where]

---------------------------------------------------------------------------
(* Charts: src/unnamed/part_000 *)

Trace(name) == [name |-> name, x |-> <<>>, y |-> <<>>]

\* Plotly.newPlot returns a Promise, which has no `data` property
NewPlotReturn == [kind |-> "Promise", hasData |-> FALSE, dataLength |-> 0]

\* initCharts: the registry keys, in insertion order
InitChartsRegistry ==
    << [key |-> "irradiance", value |-> NewPlotReturn],
       [key |-> "angles", value |-> NewPlotReturn],
       [key |-> "sensors", value |-> NewPlotReturn],
       [key |-> "efficiency", value |-> NewPlotReturn] >>

\* initCharts: the traces Plotly holds for each element
InitPlots ==
    [div \in {"irradiance-chart", "angles-chart", "sensors-chart",
              "efficiency-chart"} |->
        CASE div = "irradiance-chart" ->
                 <<Trace("Total Irradiance"), Trace("Theoretical Maximum")>>
          [] div = "angles-chart" ->
                 <<Trace("Panel Tilt"), Trace("Panel Azimuth"),
                   Trace("Sun Elevation")>>
          [] div = "sensors-chart" ->
                 <<Trace("Sensor 1"), Trace("Sensor 2"), Trace("Sensor 3"),
                   Trace("Sensor 4")>>
          [] div = "efficiency-chart" -> <<Trace("Efficiency")>>]

\* An extendTraces that leaves out the series whose new y is undefined
extendTracesSkipsUndefined(w, div, xs, ys, indices) ==
    IF \/ div \notin DOMAIN w.plots
       \/ \E j \in 1..Len(indices) : indices[j] + 1 > Len(w.plots[div])
    THEN Throw(w, "extendTraces")
    ELSE [w EXCEPT !.plots[div] =
            [i \in 1..Len(w.plots[div]) |->
                IF \E j \in 1..Len(indices) :
                      indices[j] + 1 = i /\ ys[j].k # "undefined"
                THEN LET j == CHOOSE j \in 1..Len(indices) : indices[j] + 1 = i
                     IN  [w.plots[div][i] EXCEPT
                            !.x = Append(@, xs[j]), !.y = Append(@, ys[j])]
                ELSE w.plots[div][i]]]

\* Plotly.extendTraces(div, {x: [[x1], ...], y: [[y1], ...]}, indices):
\* one point appended to each indexed trace; throws on an unknown element
\* or trace index
extendTraces(w, div, xs, ys, indices) ==
    IF \/ div \notin DOMAIN w.plots
       \/ \E j \in 1..Len(indices) : indices[j] + 1 > Len(w.plots[div])
    THEN Throw(w, "extendTraces")
    ELSE [w EXCEPT !.plots[div] =
            [i \in 1..Len(w.plots[div]) |->
                IF \E j \in 1..Len(indices) : indices[j] + 1 = i
                THEN LET j == CHOOSE j \in 1..Len(indices) : indices[j] + 1 = i
                     IN  [w.plots[div][i] EXCEPT
                            !.x = Append(@, xs[j]), !.y = Append(@, ys[j])]
                ELSE w.plots[div][i]]]

\* array[i] of a JavaScript array (0-based); undefined past its end
At(arr, i) == IF i + 1 <= Len(arr) THEN arr[i + 1] ELSE Undef

updateCharts(w, data) ==
    LET timeMin == Div(data.time, Num(60))
        w1 == extendTraces(w, "irradiance-chart", <<timeMin, timeMin>>,
                  <<data.total_irradiance, data.poa_glb>>, <<0, 1>>)
        w2 == IF w1.threw # "none" THEN w1
              ELSE extendTraces(w1, "angles-chart",
                       <<timeMin, timeMin, timeMin>>,
                       <<data.panel_tilt, data.panel_azimuth,
                         data.sun_elevation>>, <<0, 1, 2>>)
        \* data.sensor_readings[0] of an absent sensor_readings: TypeError
        w3 == IF w2.threw # "none" THEN w2
              ELSE IF ~data.sensor_readings.present
                   THEN Throw(w2, "updateCharts")
              ELSE extendTraces(w2, "sensors-chart",
                       <<timeMin, timeMin, timeMin, timeMin>>,
                       <<At(data.sensor_readings.vals, 0),
                         At(data.sensor_readings.vals, 1),
                         At(data.sensor_readings.vals, 2),
                         At(data.sensor_readings.vals, 3)>>, <<0, 1, 2, 3>>)
        efficiency == Div(Mul(Num(100), data.total_irradiance), data.poa_glb)
    IN  IF w3.threw # "none" THEN w3
        ELSE extendTraces(w3, "efficiency-chart", <<timeMin>>,
                 <<efficiency>>, <<0>>)

\* resetCharts: for each key of `charts`, charts[key].data.length is read
\* (TypeError when the value has no data) and Plotly.deleteTraces is called
\* with the registry key as the element id
RECURSIVE resetChartsFrom(_, _)
resetChartsFrom(w, i) ==
    IF i > Len(charts) THEN w
    ELSE LET chartId == charts[i].key
             gd == charts[i].value
         IN  IF ~gd.hasData THEN Throw(w, "resetCharts")
             ELSE IF chartId \notin DOMAIN w.plots
                  THEN Throw(w, "resetCharts")
             ELSE resetChartsFrom(
                      [w EXCEPT !.plots[chartId] =
                          SubSeq(@, gd.dataLength + 1, Len(@))], i + 1)

resetCharts(w) == resetChartsFrom(w, 1)

updateStatus(w, message) == [w EXCEPT !.status = message]

\* updateProgress: style.width takes the percentage (an invalid value is
\* dropped by the style object); percent.toFixed throws on undefined
updateProgress(w, percent) ==
    IF percent.k = "undefined" THEN Throw(w, "updateProgress")
    ELSE [w EXCEPT !.progress = [width |-> percent,
                                 text |-> ToFixed(percent, 10)]]

\* updateSummaryStats: one row per entry, value.toFixed(2)
updateSummaryStats(w, stats) ==
    IF \E i \in 1..Len(stats) : stats[i].value.k \in {"undefined", "string"}
    THEN Throw(w, "updateSummaryStats")
    ELSE [w EXCEPT !.summary =
            [i \in 1..Len(stats) |->
                [key |-> stats[i].key,
                 text |-> ToFixed(stats[i].value, 100)]]]

---------------------------------------------------------------------------
(* Scene: src/static/js/threejs-app.js *)

\* createPanel: the four sensor meshes are built from one sensorMaterial
\* object; sensorMaterialOf[i] is the material of sensor i
sensorMaterialOf == <<1, 1, 1, 1>>

\* Colour a sensor marker shows
SensorColor(mc, i) == mc[sensorMaterialOf[i]]

\* createPanel: MeshBasicMaterial({color: 0xFF0000})
InitMaterialColor ==
    [m \in {sensorMaterialOf[i] : i \in 1..Len(sensorMaterialOf)} |->
        <<Num(1), Num(0), Num(0)>>]

\* updatePanelOrientation
updatePanelOrientation(w, tilt, azimuth) ==
    [w EXCEPT !.panelRot = [x |-> degToRad(tilt),
                            y |-> degToRad(Sub(azimuth, Num(180)))]]

\* updateSunPosition: distance
SunDistance == 10

updateSunPosition(w, elevation, azimuth) ==
    LET distance == Num(SunDistance)
        phi == degToRad(Sub(Num(90), elevation))
        theta == degToRad(azimuth)
        pos == <<Mul(Mul(distance, MathSin(phi)), MathCos(theta)),
                 Mul(distance, MathCos(phi)),
                 Mul(Mul(distance, MathSin(phi)), MathSin(theta))>>
    IN  [w EXCEPT !.sunPos = pos, !.lightPos = pos]

\* updateSensorReadings: readings.forEach, from index i (1-based here);
\* this.sensors[index] is undefined past the fourth sensor
RECURSIVE forEachReading(_, _, _)
forEachReading(w, readings, i) ==
    IF i > Len(readings) THEN w
    ELSE IF i > Len(sensorMaterialOf) THEN Throw(w, "updateSensorReadings")
    ELSE LET intensity == MathMin(Div(readings[i], Num(1000)), Num(1))
         IN  forEachReading(
                 [w EXCEPT !.materialColor[sensorMaterialOf[i]] =
                     <<Sub(Num(1), intensity), intensity, Num(0)>>],
                 readings, i + 1)

updateSensorReadings(w, readings) == forEachReading(w, readings, 1)

\* updateClouds(undefined): x += 0.01, wrapping past 5 to -5
updateClouds(w) ==
    [w EXCEPT !.clouds =
        [i \in 1..Len(w.clouds) |->
            IF w.clouds[i] + 1 > 500 THEN -500 ELSE w.clouds[i] + 1]]

updateFromData(w, data) ==
    LET w1 == IF data.panel_tilt.k # "undefined"
                 /\ data.panel_azimuth.k # "undefined"
              THEN updatePanelOrientation(w, data.panel_tilt,
                                          data.panel_azimuth)
              ELSE w
        w2 == IF data.sun_elevation.k # "undefined"
                 /\ data.sun_azimuth.k # "undefined"
              THEN updateSunPosition(w1, data.sun_elevation, data.sun_azimuth)
              ELSE w1
        w3 == IF data.sensor_readings.present
              THEN updateSensorReadings(w2, data.sensor_readings.vals)
              ELSE w2
    IN  IF w3.threw # "none" THEN w3 ELSE updateClouds(w3)

\* A handleSimulationData that stores the snapshot after the scene and the
\* charts took it
handleSimulationDataStoresLast(w, data) ==
    LET w1 == updateProgress(w, data.progress)
        w2 == IF w1.threw # "none" THEN w1
              ELSE IF data.summary_stats.present
                   THEN updateSummaryStats(w1, data.summary_stats.entries)
              ELSE w1
        w3 == updateFromData(w2, data.current_data)
        w4 == updateCharts(w3, data.current_data)
    IN  IF w2.threw # "none" \/ ~data.current_data.present THEN w2
        ELSE IF w3.threw # "none" THEN w3
        ELSE IF w4.threw # "none" THEN w4
        ELSE [w4 EXCEPT !.simulationData = Append(@, data.current_data)]

---------------------------------------------------------------------------
(* Handlers: src/unnamed/part_000 *)

handleSimulationData(w, data) ==
    LET w1 == updateProgress(w, data.progress)
        w2 == IF w1.threw # "none" THEN w1
              ELSE IF data.summary_stats.present
                   THEN updateSummaryStats(w1, data.summary_stats.entries)
              ELSE w1
        w3 == [w2 EXCEPT !.simulationData = Append(@, data.current_data)]
        w4 == updateFromData(w3, data.current_data)
    IN  IF w2.threw # "none" \/ ~data.current_data.present THEN w2
        ELSE IF w4.threw # "none" THEN w4
        ELSE updateCharts(w4, data.current_data)

\* A disconnect handler that also ends the run in the controls
onDisconnectStopsUi(w) ==
    [updateStatus(w, "Disconnected from server")
        EXCEPT !.startDisabled = FALSE, !.pauseDisabled = TRUE]

\* socket 'disconnect' handler
onDisconnect(w) == updateStatus(w, "Disconnected from server")

\* A simulation_complete handler that leaves the pause control as it is
onSimulationCompleteKeepsPause(w) ==
    [updateStatus(w, "Simulation completed") EXCEPT !.startDisabled = FALSE]

\* The simulation_complete handler of initSocket
onSimulationComplete(w) ==
    [updateStatus(w, "Simulation completed") EXCEPT
        !.startDisabled = FALSE, !.pauseDisabled = TRUE]

\* sendStartRequest: the promise chain run on the fetch outcome.
\* fetch rejects only when no response arrives; response.json() rejects on
\* a body that is not JSON; a rejection anywhere, also one thrown by the
\* second then-callback, runs the catch callback
onStartResponse(w, outcome) ==
    IF ~outcome.delivered \/ ~outcome.json
    THEN updateStatus(w, "Error starting simulation")
    ELSE LET w1 == [updateStatus(w, "Simulation started") EXCEPT
                       !.startDisabled = TRUE, !.pauseDisabled = FALSE]
             w2 == resetCharts(w1)
         IN  IF w2.threw # "none"
             THEN updateStatus(w2, "Error starting simulation")
             ELSE w2

\* A pauseSimulation that forgets to enable the start control again
pauseSimulationKeepsStart(w) ==
    [updateStatus(w, "Simulation paused") EXCEPT !.pauseDisabled = TRUE]

pauseSimulation(w) ==
    [updateStatus(w, "Simulation paused") EXCEPT
        !.startDisabled = FALSE, !.pauseDisabled = TRUE]

resetSimulation(w) ==
    LET w1 == resetCharts([w EXCEPT !.simulationData = <<>>])
        w2 == updateProgress(updateStatus(w1, "Simulation reset"), Num(0))
    IN  IF w1.threw # "none" THEN w1
        ELSE IF w2.threw # "none" THEN w2
        ELSE updateSummaryStats(w2, <<>>)

---------------------------------------------------------------------------
(* History of the start and reset commands *)

\* cmdPhase after a handler ran: "started" after a first acknowledged
\* start, "reset" after a reset that follows it, "restarted" after a second
\* acknowledged start that follows the reset, "off" on any other order
PhaseAfter(phase, event, acked) ==
    IF event = "start_response" /\ acked
    THEN CASE phase = "fresh" -> "started"
           [] phase = "reset" -> "restarted"
           [] OTHER -> "off"
    ELSE IF event = "reset"
         THEN (IF phase = "started" THEN "reset" ELSE "off")
    ELSE phase

InvalidTime(cd) == ~(cd.time.k = "num" /\ cd.time.n >= 0)

\* a <= b, for finite numbers
Leq(a, b) == a.n * b.d <= b.n * a.d

\* runClock when it is not kept
ClockOff == [on |-> FALSE, ordered |-> TRUE, last |-> Num(-1)]

\* runClock at the start of a run: no snapshot delivered yet (every valid
\* time is at least 0)
ClockStart == [on |-> TRUE, ordered |-> TRUE, last |-> Num(-1)]

\* runClock after a simulation_data message: `ordered` stays TRUE while
\* every snapshot of the run carries a valid time not below the one
\* delivered before it
ClockAfterData(clock, data) ==
    IF ~clock.on \/ ~clock.ordered \/ ~data.current_data.present THEN clock
    ELSE IF InvalidTime(data.current_data)
            \/ ~Leq(clock.last, data.current_data.time)
         THEN [ClockStart EXCEPT !.ordered = FALSE]
    ELSE [clock EXCEPT !.last = data.current_data.time]

\* runClock after a start response: an acknowledged start begins a run
ClockAfterStart(clock, acked) ==
    IF clock.on /\ clock.ordered /\ acked THEN ClockStart ELSE clock

\* resetPending after a reset ("off" when it is not kept)
PendingAfterReset(pending, outstanding) ==
    IF pending = "off" THEN "off"
    ELSE IF outstanding > 0 THEN "yes" ELSE "no"

\* resetPending after a start response
PendingAfterStart(pending) == IF pending = "off" THEN "off" ELSE "no"

---------------------------------------------------------------------------
(* Initial state: the page after both DOMContentLoaded handlers ran *)

\* createClouds: initial x of the three cloud groups, (Math.random()-0.5)*10,
\* in hundredths
CloudStarts == { <<-250, 0, 500>> }

\* The page's markup before any handler ran: start enabled, pause
\* disabled, empty status, progress 0, no summary rows
InitialControls ==
    [status |-> "", progress |-> [width |-> Num(0), text |-> 0],
     summary |-> <<>>, startDisabled |-> FALSE, pauseDisabled |-> TRUE]

\* The page state after construction, for cloud positions c
InitWorld(c) ==
    [plots |-> InitPlots,
     simulationData |-> <<>>,
     panelRot |-> [x |-> Num(0), y |-> Num(0)],
     sunPos |-> <<Num(0), Num(0), Num(0)>>,
     lightPos |-> <<Num(10), Num(10), Num(10)>>,
     materialColor |-> InitMaterialColor,
     clouds |-> c,
     status |-> InitialControls.status,
     progress |-> InitialControls.progress,
     summary |-> InitialControls.summary,
     startDisabled |-> InitialControls.startDisabled,
     pauseDisabled |-> InitialControls.pauseDisabled,
     threw |-> "none"]

InitPage ==
    /\ connected = FALSE
    /\ charts = InitChartsRegistry
    /\ \E c \in CloudStarts :
          /\ plots = InitWorld(c).plots
          /\ simulationData = InitWorld(c).simulationData
          /\ panelRot = InitWorld(c).panelRot
          /\ sunPos = InitWorld(c).sunPos
          /\ lightPos = InitWorld(c).lightPos
          /\ materialColor = InitWorld(c).materialColor
          /\ clouds = InitWorld(c).clouds
          /\ status = InitWorld(c).status
          /\ progress = InitWorld(c).progress
          /\ summary = InitWorld(c).summary
          /\ startDisabled = InitWorld(c).startDisabled
          /\ pauseDisabled = InitWorld(c).pauseDisabled
          /\ lastThrew = InitWorld(c).threw
    /\ inflight = [presets |-> 0, start |-> 0]
    /\ msgCount = 0
    /\ lastEvent = "load"
    /\ lastMsg = NoMessage
    /\ lastOutcome = NoOutcome

Init ==
    InitPage /\ cmdPhase = "off" /\ runClock = ClockOff /\ resetPending = "off"

InitCommands ==
    InitPage /\ cmdPhase = "fresh" /\ runClock = ClockOff
             /\ resetPending = "off"

InitRuns ==
    InitPage /\ cmdPhase = "off" /\ runClock = ClockStart
             /\ resetPending = "off"

InitPending ==
    InitPage /\ cmdPhase = "off" /\ runClock = ClockOff /\ resetPending = "no"

---------------------------------------------------------------------------
(* Events *)

\* History of one handler run that is neither a message nor a response
Plain(event) ==
    /\ lastEvent' = event
    /\ lastMsg' = NoMessage
    /\ lastOutcome' = NoOutcome

\* socket 'connect'
Connect ==
    /\ ~connected
    /\ connected' = TRUE
    /\ Commit(updateStatus(World, "Connected to server"))
    /\ Plain("connect")
    /\ UNCHANGED <<charts, inflight, msgCount, cmdPhase,
                 runClock, resetPending>>

\* socket 'disconnect'
Disconnect ==
    /\ connected
    /\ connected' = FALSE
    /\ Commit(onDisconnect(World))
    /\ Plain("disconnect")
    /\ UNCHANGED <<charts, inflight, msgCount, cmdPhase,
                 runClock, resetPending>>

\* socket 'simulation_data'
SimulationData ==
    /\ connected
    /\ msgCount < MaxMessages
    /\ \E data \in Messages :
          /\ Commit(handleSimulationData(World, data))
          /\ lastMsg' = data
          /\ runClock' = ClockAfterData(runClock, data)
    /\ msgCount' = msgCount + 1
    /\ lastEvent' = "simulation_data"
    /\ lastOutcome' = NoOutcome
    /\ UNCHANGED <<connected, charts, inflight, cmdPhase,
                 resetPending>>

\* socket 'simulation_complete'
SimulationComplete ==
    /\ connected
    /\ Commit(onSimulationComplete(World))
    /\ Plain("simulation_complete")
    /\ UNCHANGED <<connected, charts, inflight, msgCount, cmdPhase,
                 runClock, resetPending>>

\* startSimulation, run by a click on the enabled start control: a custom
\* configuration is posted at once, a named preset first fetches the catalog
StartSimulation ==
    /\ ~startDisabled
    /\ inflight.presets + inflight.start < MaxInflight
    /\ \E preset \in {"custom", "default"} :
          inflight' = IF preset = "custom"
                      THEN [inflight EXCEPT !.start = @ + 1]
                      ELSE [inflight EXCEPT !.presets = @ + 1]
    /\ Commit(World)
    /\ Plain("start")
    /\ UNCHANGED <<connected, charts, msgCount, cmdPhase,
                 runClock, resetPending>>

\* The outcome of fetch('/api/config/presets'): the chain has no catch, so
\* a rejection changes nothing; otherwise sendStartRequest posts the request
PresetsResponse ==
    /\ inflight.presets > 0
    /\ \E outcome \in Outcomes :
          /\ inflight' = IF outcome.delivered /\ outcome.json
                         THEN [presets |-> inflight.presets - 1,
                               start |-> inflight.start + 1]
                         ELSE [inflight EXCEPT !.presets = @ - 1]
          /\ lastOutcome' = outcome
    /\ Commit(World)
    /\ lastEvent' = "presets_response"
    /\ lastMsg' = NoMessage
    /\ UNCHANGED <<connected, charts, msgCount, cmdPhase,
                 runClock, resetPending>>

\* Whether the start request was acknowledged: a 2xx response with a body
Acknowledged(outcome) ==
    outcome.delivered /\ outcome.http = 200 /\ outcome.json

\* The outcome of fetch('/api/simulation/start')
StartResponse ==
    /\ inflight.start > 0
    /\ \E outcome \in Outcomes :
          /\ Commit(onStartResponse(World, outcome))
          /\ lastOutcome' = outcome
          /\ cmdPhase' = PhaseAfter(cmdPhase, "start_response",
                                    Acknowledged(outcome))
          /\ runClock' = ClockAfterStart(runClock, Acknowledged(outcome))
    /\ resetPending' = PendingAfterStart(resetPending)
    /\ inflight' = [inflight EXCEPT !.start = @ - 1]
    /\ lastEvent' = "start_response"
    /\ lastMsg' = NoMessage
    /\ UNCHANGED <<connected, charts, msgCount>>

\* pauseSimulation, run by a click on the enabled pause control
PauseSimulation ==
    /\ ~pauseDisabled
    /\ Commit(pauseSimulation(World))
    /\ Plain("pause")
    /\ UNCHANGED <<connected, charts, inflight, msgCount, cmdPhase,
                 runClock, resetPending>>

\* resetSimulation, run by a click on the reset control
ResetSimulation ==
    /\ Commit(resetSimulation(World))
    /\ Plain("reset")
    /\ cmdPhase' = PhaseAfter(cmdPhase, "reset", FALSE)
    /\ resetPending' = PendingAfterReset(resetPending, inflight.start)
    /\ UNCHANGED <<connected, charts, inflight, msgCount,
                 runClock>>

\* animate: asks for the next frame and draws the scene; it moves nothing
animate(w) == w

\* One animation frame of the loop the constructor started
Animate ==
    /\ Commit(animate(World))
    /\ Plain("animate")
    /\ UNCHANGED <<connected, charts, inflight, msgCount, cmdPhase,
                 runClock, resetPending>>

Next ==
    \/ Connect
    \/ Disconnect
    \/ SimulationData
    \/ SimulationComplete
    \/ StartSimulation
    \/ PresetsResponse
    \/ StartResponse
    \/ PauseSimulation
    \/ ResetSimulation

Spec == Init /\ [][Next]_vars

\* The same program, with cmdPhase following the commands from page load
SpecCommands == InitCommands /\ [][Next]_vars

\* The handlers together with the frames of the animation loop. A frame
\* changes no object of the page or the scene, so under Spec it is a
\* stuttering step; here it is recorded in lastEvent.
NextFrames == Next \/ Animate

SpecFrames == Init /\ [][NextFrames]_vars

\* The same program, with runClock following the snapshots of each run
SpecRuns == InitRuns /\ [][Next]_vars

\* The same program, with resetPending following reset and start responses
SpecPending == InitPending /\ [][Next]_vars

---------------------------------------------------------------------------
(* Properties *)

\* The one trace of the efficiency chart
EfficiencyTrace == plots["efficiency-chart"][1]

PoaZeroOrAbsent(cd) ==
    \/ cd.poa_glb.k = "undefined"
    \/ cd.poa_glb.k = "num" /\ cd.poa_glb.n = 0

\* The handler that ran last handled a simulation_data message that
\* carried current_data
HandledSnapshot == lastEvent = "simulation_data" /\ lastMsg.current_data.present

\* C1: a simulation_data message whose current_data has poa_glb 0 or absent
\* appends no point to the Efficiency series, and the Efficiency series
\* never holds a NaN or Infinity y-value.
C1_EfficiencyGuardsZeroPoa ==
    /\ [][(HandledSnapshot' /\ PoaZeroOrAbsent(lastMsg'.current_data))
             => EfficiencyTrace'.y = EfficiencyTrace.y]_vars
    /\ [](\A i \in 1..Len(EfficiencyTrace.y) :
             EfficiencyTrace.y[i].k \notin {"NaN", "Infinity"})


\* Panel rotation, sun position and the colour each sensor marker shows
SceneOf(rot, sun, mc) ==
    [panelRot |-> rot, sunPos |-> sun,
     sensorColors |-> [i \in 1..Len(sensorMaterialOf) |-> SensorColor(mc, i)]]

SceneState == SceneOf(panelRot, sunPos, materialColor)

\* C2: a simulation_data message whose current_data.time is not a finite
\* number >= 0 leaves every chart series, the scene state and the stored
\* snapshot history as they were.
C2_MalformedSnapshotRejected ==
    [][(HandledSnapshot' /\ InvalidTime(lastMsg'.current_data))
          => /\ plots' = plots
             /\ SceneState' = SceneState
             /\ simulationData' = simulationData]_vars

\* Every series of chart div holds one point more in p2 than in p1
GotPoint(p1, p2, div) ==
    \A i \in 1..Len(p1[div]) :
        /\ Len(p2[div][i].x) = Len(p1[div][i].x) + 1
        /\ Len(p2[div][i].y) = Len(p1[div][i].y) + 1

\* C3: for a message with a valid time but no sensor_readings, handling
\* completes without error, the irradiance, angles and efficiency charts
\* each receive their point and only the sensor series are skipped.
C3_MissingReadingsSkipSensorsOnly ==
    [][(/\ HandledSnapshot'
        /\ lastMsg'.progress.k = "num"
        /\ ~InvalidTime(lastMsg'.current_data)
        /\ ~lastMsg'.current_data.sensor_readings.present)
          => /\ lastThrew' = "none"
             /\ GotPoint(plots, plots', "irradiance-chart")
             /\ GotPoint(plots, plots', "angles-chart")
             /\ GotPoint(plots, plots', "efficiency-chart")
             /\ plots'["sensors-chart"] = plots["sensors-chart"]]_vars

\* C4: a snapshot that lacks panel_tilt but carries panel_azimuth leaves
\* rotation.x unchanged and sets rotation.y to (azimuth - 180) degrees.
C4_MissingTiltStillUpdatesAzimuth ==
    [][(/\ HandledSnapshot'
        /\ lastMsg'.progress.k = "num"
        /\ lastMsg'.current_data.panel_tilt.k = "undefined"
        /\ lastMsg'.current_data.panel_azimuth.k = "num")
          => /\ panelRot'.x = panelRot.x
             /\ panelRot'.y =
                    Div(Sub(lastMsg'.current_data.panel_azimuth, Num(180)),
                        Num(180))]_vars

\* The colour the claim gives a reading: (1 - min(r/1000, 1), min(r/1000, 1), 0)
ClaimedColor(r) ==
    LET i == IF r.n >= 1000 * r.d THEN Num(1) ELSE Rat(r.n, 1000 * r.d)
    IN  <<Rat(i.d - i.n, i.d), i, Num(0)>>

\* C5: after a snapshot with four sensor_readings is applied, marker i
\* shows the colour of reading i alone; for [0, 500, 1000, 1500] the
\* markers show (1,0,0), (0.5,0.5,0), (0,1,0), (0,1,0).
C5_SensorColorsIndependent ==
    (/\ HandledSnapshot
     /\ lastMsg.progress.k = "num"
     /\ ~InvalidTime(lastMsg.current_data)
     /\ lastMsg.current_data.sensor_readings.present
     /\ Len(lastMsg.current_data.sensor_readings.vals) = 4)
      => LET r == lastMsg.current_data.sensor_readings.vals
         IN  /\ \A i \in 1..4 :
                    SensorColor(materialColor, i) = ClaimedColor(r[i])
             /\ r = <<Num(0), Num(500), Num(1000), Num(1500)>>
                  => /\ SensorColor(materialColor, 1) = <<Num(1), Num(0), Num(0)>>
                     /\ SensorColor(materialColor, 2) = <<Rat(1, 2), Rat(1, 2), Num(0)>>
                     /\ SensorColor(materialColor, 3) = <<Num(0), Num(1), Num(0)>>
                     /\ SensorColor(materialColor, 4) = <<Num(0), Num(1), Num(0)>>

\* The handler that ran last called resetCharts
CalledResetCharts ==
    \/ lastEvent = "reset"
    \/ lastEvent = "start_response" /\ lastOutcome.delivered /\ lastOutcome.json

\* C6: resetting the charts leaves each chart with the named series it had
\* after initCharts (2, 3, 4 and 1), each empty: the post-init state.
C6_ResetChartsRestoresInit == CalledResetCharts => plots = InitPlots

\* The page after one acknowledged start on a freshly loaded page
FreshStart ==
    onStartResponse(InitWorld(CHOOSE c \in CloudStarts : TRUE),
                    [delivered |-> TRUE, http |-> 200, json |-> TRUE])

\* C7: start (acknowledged), reset, start (acknowledged) leaves the chart
\* series and the scene state as a single acknowledged start on a freshly
\* loaded page does, whatever snapshots arrived in between.
C7_StartResetStartAsFresh ==
    cmdPhase = "restarted"
      => /\ plots = FreshStart.plots
         /\ SceneState = SceneOf(FreshStart.panelRot, FreshStart.sunPos,
                                 FreshStart.materialColor)

\* The scene as built by the constructor
InitScene ==
    LET w == InitWorld(CHOOSE c \in CloudStarts : TRUE)
    IN  SceneOf(w.panelRot, w.sunPos, w.materialColor)

\* C8: when the start request is acknowledged the start control is
\* disabled, the pause control enabled, the status reads 'Simulation
\* started' and both sinks are in their empty/default state.
C8_AckStartsAndResetsSinks ==
    (lastEvent = "start_response" /\ Acknowledged(lastOutcome))
      => /\ startDisabled
         /\ ~pauseDisabled
         /\ status = "Simulation started"
         /\ plots = InitPlots
         /\ SceneState = InitScene

\* A request that failed: no response, or a response that is not 2xx
RequestFailed(outcome) == ~outcome.delivered \/ outcome.http # 200

\* C9: a failed start request (or preset-catalog fetch) shows an error
\* status, leaves the start control enabled and the pause control not
\* enabled as before the response, and resets no sink; the UI does not
\* enter the running state.
C9_FailedStartStaysPreStart ==
    [][(/\ lastEvent' \in {"start_response", "presets_response"}
        /\ RequestFailed(lastOutcome'))
          => /\ status' = "Error starting simulation"
             /\ startDisabled' = startDisabled
             /\ pauseDisabled' = pauseDisabled
             /\ plots' = plots
             /\ SceneState' = SceneState]_vars

\* C10: on receipt of simulation_complete the start control is enabled and
\* the pause control disabled, and chart and scene state are unchanged.
C10_CompleteStopsUi ==
    [][lastEvent' = "simulation_complete"
          => /\ ~startDisabled'
             /\ pauseDisabled'
             /\ plots' = plots
             /\ SceneState' = SceneState
             /\ lightPos' = lightPos
             /\ clouds' = clouds]_vars

\* simulation_complete arrived while the UI was running with points plotted
\* and the scene moved
C10_Witness ==
    /\ lastEvent = "simulation_complete"
    /\ ~startDisabled
    /\ pauseDisabled
    /\ status = "Simulation completed"
    /\ Len(EfficiencyTrace.x) > 0
    /\ SceneState # InitScene

NonDecreasing(xs) ==
    \A i \in 1..(Len(xs) - 1) :
        xs[i].k = "num" /\ xs[i + 1].k = "num" /\ Leq(xs[i], xs[i + 1])

\* C11: while the server delivers each run's snapshots with non-decreasing
\* time, the x-values of every series of every chart are non-decreasing in
\* every reachable state, whatever the interleaving of simulation_data with
\* start, its acknowledgment, pause and reset.
C11_SeriesTimeOrdered ==
    (runClock.on /\ runClock.ordered)
        => \A div \in DOMAIN plots :
              \A i \in 1..Len(plots[div]) : NonDecreasing(plots[div][i].x)

\* C12: every animation frame advances the position of each cloud, whether
\* or not a simulation_data message has arrived: the drift follows the
\* frames, not the snapshots.
C12_FramesDriveClouds ==
    [][lastEvent' = "animate"
          => \A i \in 1..Len(clouds) : clouds'[i] # clouds[i]]_vars

\* The last y-value of each sensor series is the reading of its index
SensorPointsFrom(p, readings) ==
    \A i \in 1..Len(p["sensors-chart"]) :
        LET ys == p["sensors-chart"][i].y
        IN  Len(ys) > 0 /\ ys[Len(ys)] = readings.vals[i]

\* C13: for a snapshot whose sensor_readings has more than four entries,
\* handling completes without error, every chart receives its point and
\* the four sensor series take theirs from entries 0..3; the entries
\* beyond index 3 are ignored.
C13_ExtraReadingsIgnored ==
    [][(/\ HandledSnapshot'
        /\ lastMsg'.progress.k = "num"
        /\ ~InvalidTime(lastMsg'.current_data)
        /\ Len(lastMsg'.current_data.sensor_readings.vals) > 4)
          => /\ lastThrew' = "none"
             /\ \A div \in DOMAIN plots : GotPoint(plots, plots', div)
             /\ SensorPointsFrom(plots',
                                 lastMsg'.current_data.sensor_readings)]_vars

\* C14: reset, from any state, empties the snapshot history, resets both
\* sinks, sets the progress display to 0 and the summary display to empty,
\* sends no request and leaves the enablement of the start and pause
\* controls as it was.
C14_ResetClearsAllButControls ==
    [][lastEvent' = "reset"
          => /\ simulationData' = <<>>
             /\ plots' = InitPlots
             /\ SceneState' = InitScene
             /\ progress' = updateProgress(World, Num(0)).progress
             /\ summary' = <<>>
             /\ inflight' = inflight
             /\ startDisabled' = startDisabled
             /\ pauseDisabled' = pauseDisabled]_vars

\* C15: in every reachable state, from scene initialisation onward, the
\* position of the directional light equals the position of the sun mesh.
C15_LightAtSun == lightPos = sunPos

\* C16: a disconnect updates the status text and nothing else: control
\* enablement, chart series, scene state, snapshot history and progress
\* display are unchanged and no request is sent.
C16_DisconnectOnlyStatus ==
    [][lastEvent' = "disconnect"
          => /\ status' = "Disconnected from server"
             /\ UNCHANGED <<startDisabled, pauseDisabled, plots, charts,
                            panelRot, sunPos, lightPos, materialColor,
                            clouds, simulationData, progress, summary,
                            inflight>>]_vars

\* The socket dropped while the UI was running, with
\* points plotted, a snapshot stored and the scene moved
C16_Witness ==
    /\ lastEvent = "disconnect"
    /\ status = "Disconnected from server"
    /\ startDisabled
    /\ ~pauseDisabled
    /\ Len(EfficiencyTrace.x) > 0
    /\ Len(simulationData) > 0
    /\ SceneState # InitScene

\* C17: a reset issued while a start request is outstanding does not abort
\* it: the acknowledgment that arrives after the reset still puts the UI in
\* the running state, replaces the 'Simulation reset' status and resets the
\* charts again, discarding the points appended between reset and
\* acknowledgment.
C17_AckAfterResetStillStarts ==
    [][(/\ resetPending = "yes"
        /\ lastEvent' = "start_response"
        /\ Acknowledged(lastOutcome'))
          => /\ startDisabled'
             /\ ~pauseDisabled'
             /\ status' # "Simulation reset"
             /\ plots' = InitPlots]_vars

\* Every series of the chart holds the same x-values, one y per x
SeriesAligned(p, div) ==
    \A i \in 1..Len(p[div]) :
        /\ p[div][i].x = p[div][1].x
        /\ Len(p[div][i].y) = Len(p[div][i].x)

\* C18: in every reachable state all series of one chart have the same
\* number of points and the same x-values, and each step advances every
\* series of a chart by exactly one point or by none.
C18_SeriesOfChartAdvanceTogether ==
    /\ [](\A div \in DOMAIN plots : SeriesAligned(plots, div))
    /\ [][\A div \in DOMAIN plots :
             GotPoint(plots, plots', div) \/ plots'[div] = plots[div]]_vars

\* Two snapshots were plotted, the second without sensor_readings: the
\* charts differ in length, the series within each chart do not
C18_Witness ==
    /\ lastEvent = "simulation_data"
    /\ lastThrew = "updateCharts"
    /\ Len(plots["irradiance-chart"][2].x) = 2
    /\ Len(plots["sensors-chart"][4].x) = 1
    /\ Len(EfficiencyTrace.x) = 1

ExactlyOneEnabled == startDisabled # pauseDisabled

\* C19: once a start acknowledgment, a pause or a simulation_complete has
\* occurred, the start and pause controls are never both enabled nor both
\* disabled: each of these events leaves exactly one of them enabled, and
\* no later step of any interleaving changes that.
C19_ExactlyOneControlEnabled ==
    /\ [][(\/ lastEvent' \in {"pause", "simulation_complete"}
           \/ lastEvent' = "start_response" /\ Acknowledged(lastOutcome'))
             => ExactlyOneEnabled']_vars
    /\ [][ExactlyOneEnabled => ExactlyOneEnabled']_vars

\* The run was acknowledged, a snapshot arrived and the user paused: start
\* is enabled again and pause disabled
C19_Witness ==
    /\ lastEvent = "pause"
    /\ status = "Simulation paused"
    /\ ~startDisabled
    /\ pauseDisabled
    /\ Len(simulationData) > 0

\* The handler of the message gets past updateProgress and
\* updateSummaryStats, to the statement that stores the snapshot
ReachesPush(data) ==
    LET w1 == updateProgress(World, data.progress)
    IN  /\ data.current_data.present
        /\ w1.threw = "none"
        /\ data.summary_stats.present
              => updateSummaryStats(w1, data.summary_stats.entries).threw
                    = "none"

====
